---------------------------- MODULE Spec2Model ----------------------------
(***************************************************************************)
(* JsonParquetMerger (src/src/index.test.ts, lines 962-1330): schema       *)
(* inference over a list of JSON files, optional schema validation,        *)
(* record transformation and the batched write pipeline.                   *)
(*                                                                         *)
(* These entry points are modelled, each with its own specification:       *)
(*   Spec          run(): discoverFiles, inferSchema, processFiles, over   *)
(*                 files whose content stays the same during the run       *)
(*   SpecProcess   processFiles(files) on a merger whose inferredSchema is *)
(*                 any schema or null: the write phase re-reads every file,*)
(*                 so what it finds need not be what inference saw         *)
(*   SpecValidate  validateSchema(records) on a merger whose               *)
(*                 inferredSchema was assigned beforehand                  *)
(*   SpecInfer     inferSchema(files) on a new merger                      *)
(*   SpecClassify  the classification step of inferSchema over records     *)
(*                 holding values of every kind                            *)
(*   SpecTransform transformRecord(record), applied twice                  *)
(*   SpecConstruct the constructor, then run(), for any integer batchSize  *)
(*   SpecRunValidated  run() with validation, a field named constructor    *)
(* The awaits on external calls are the step boundaries; the external      *)
(* calls that can fail (fs.readFile, ParquetWriter.openFile, appendRow,    *)
(* close) fail nondeterministically.  Log output is not modelled.          *)
(* Records are JSON objects whose keys are ordinary property names; the    *)
(* key "__proto__", whose assignment to schemaFields would set a prototype *)
(* instead of a key, is outside the model.                                 *)
(***************************************************************************)
EXTENDS Integers, Sequences, FiniteSets, TLC

(***************************************************************************)
(* Bounds of the model.                                                    *)
(***************************************************************************)
MaxFiles == 2       \* files in the input list
MaxRecords == 3     \* records in all files of the list together
MaxBatch == 2       \* largest configured batchSize
MaxValidated == 2   \* records in a batch handed to validateSchema directly
MaxInferred == 2    \* records in all files handed to inferSchema directly

(***************************************************************************)
(* JavaScript values, tagged by what typeof / instanceof see.              *)
(* A number is <<"number", whole, tenths>>: 85.5 is <<"number", 85, 5>>.   *)
(***************************************************************************)
Null == <<"null">>
Undefined == <<"undefined">>
Str(s) == <<"string", s>>
Num(whole, tenths) == <<"number", whole, tenths>>
Bool(b) == <<"boolean", b>>
Obj(members) == <<"object", members>>   \* members: sequence of <<key, value>>
Arr(items) == <<"array", items>>
DateVal(ms) == <<"date", ms>>

\* typeof value === 'object', for a value that is not null
IsObject(v) == v[1] \in {"object", "array", "date"}

Range(s) == {s[i] : i \in DOMAIN s}

\* mutant of NumberIsInteger: every number is taken to have a fraction
NumberNeverInteger(v) == FALSE

\* Number.isInteger(value)
NumberIsInteger(v) == v[1] = "number" /\ v[3] = 0

\* Date.prototype.toISOString, which JSON.stringify writes for a Date, for
\* the dates of the model
ToISOString(ms) ==
    CASE ms = 0 -> "1970-01-01T00:00:00.000Z"
      [] ms = 86400000 -> "1970-01-02T00:00:00.000Z"

\* mutant of ClassifyValue: a string that holds an ISO date is taken for a date
ClassifyIsoStringAsDate(v) ==
    IF v[1] = "string"
    THEN (IF v[2] = ToISOString(0) THEN "TIMESTAMP_MILLIS" ELSE "UTF8")
    ELSE IF v[1] = "number" THEN (IF v[3] = 0 THEN "INT64" ELSE "DOUBLE")
    ELSE IF v[1] = "boolean" THEN "BOOLEAN"
    ELSE IF v[1] = "date" THEN "TIMESTAMP_MILLIS"
    ELSE "UTF8"

\* the if / else-if chain of inferSchema's second pass
ClassifyValue(v) ==
    IF v[1] = "string" THEN "UTF8"
    ELSE IF v[1] = "number"
         THEN (IF NumberIsInteger(v) THEN "INT64" ELSE "DOUBLE")
    ELSE IF v[1] = "boolean" THEN "BOOLEAN"
    ELSE IF v[1] = "date" THEN "TIMESTAMP_MILLIS"
    ELSE "UTF8"

(***************************************************************************)
(* Records are functions from their own keys to values.  Object.keys lists *)
(* the keys of an object in property order: the integer-like keys in       *)
(* ascending order, then the other keys in the order they were created,    *)
(* which for a record is the order FieldOrder.                             *)
(***************************************************************************)
FieldOrder == <<"id", "score", "constructor">>

\* the integer-like keys of the model, ascending
IndexKeys == <<"7">>

\* names every object inherits from Object.prototype (the ones FieldOrder has)
ObjectPrototypeKeys == {"constructor"}

ObjectKeys(record) == SelectSeq(IndexKeys \o FieldOrder, LAMBDA k : k \in DOMAIN record)

\* record[fieldName]: an absent key reads as undefined
GetField(record, fieldName) ==
    IF fieldName \in DOMAIN record THEN record[fieldName] ELSE Undefined

\* key in record: own keys and inherited ones
KeyIn(key, record) == key \in DOMAIN record \/ key \in ObjectPrototypeKeys

\* schemaKeys.includes(key)
Includes(seq, key) == key \in Range(seq)

(***************************************************************************)
(* Input files.  A file's content is invalid JSON, a JSON array of objects *)
(* or a single JSON object.                                                *)
(***************************************************************************)
RecordPool ==
    { [score |-> Null],
      [id |-> Num(2, 0), score |-> Num(85, 0)],
      [id |-> Obj(<< <<"n", Num(3, 0)>> >>), score |-> Num(85, 5)] }

InvalidJson == [kind |-> "invalid", parsed |-> <<>>]
JsonArray(recs) == [kind |-> "array", parsed |-> recs]
JsonObject(rec) == [kind |-> "object", parsed |-> rec]

\* JSON.parse(content), then Array.isArray(parsed) ? parsed : [parsed]
JsonParse(content) ==
    [ok |-> content.kind # "invalid",
     data |-> IF content.kind = "object" THEN <<content.parsed>> ELSE content.parsed]

\* the record JSON.parse reads from the text JSON.stringify wrote for record:
\* a member that is undefined is gone and a Date has become its ISO string
JsonReadBack(record) ==
    [k \in {n \in DOMAIN record : record[n] # Undefined} |->
       IF record[k][1] = "date" THEN Str(ToISOString(record[k][2])) ELSE record[k]]

SeqsUpTo(S, n) == UNION {[1..k -> S] : k \in 0..n}

ContentsUpTo(n) ==
    {InvalidJson}
      \cup {JsonArray(s) : s \in SeqsUpTo(RecordPool, n)}
      \cup {JsonObject(r) : r \in IF n > 0 THEN RecordPool ELSE {}}

RECURSIVE FileListsOf(_, _)
FileListsOf(nFiles, budget) ==
    IF nFiles = 0 THEN {<<>>}
    ELSE UNION { { <<c>> \o rest :
                     rest \in FileListsOf(nFiles - 1, budget - Len(JsonParse(c).data)) }
                 : c \in ContentsUpTo(budget) }

FileLists == UNION {FileListsOf(n, MaxRecords) : n \in 0..MaxFiles}

BatchSizes == 1..MaxBatch

(***************************************************************************)
(* Schema: an insertion-ordered mapping, kept as a sequence of entries.    *)
(***************************************************************************)
SchemaEntry(name, type) == [name |-> name, type |-> type, optional |-> TRUE]

SchemaNames(schema) == [i \in DOMAIN schema |-> schema[i].name]

\* position of key in the sequence seq, 0 when it is not there
IndexOf(seq, key) ==
    IF \E i \in DOMAIN seq : seq[i] = key
    THEN CHOOSE i \in DOMAIN seq : seq[i] = key
    ELSE 0

\* schemaFields[fieldName] = entry, on the plain object schemaFields: a new
\* integer-like key goes after the smaller integer-like keys and before all
\* other keys, any other new key goes last
SetEntry(schema, entry) ==
    IF \E i \in DOMAIN schema : schema[i].name = entry.name
    THEN [i \in DOMAIN schema |->
             IF schema[i].name = entry.name THEN entry ELSE schema[i]]
    ELSE IF IndexOf(IndexKeys, entry.name) = 0
    THEN Append(schema, entry)
    ELSE LET smaller(e) == /\ IndexOf(IndexKeys, e.name) # 0
                           /\ IndexOf(IndexKeys, e.name) < IndexOf(IndexKeys, entry.name)
         IN  SelectSeq(schema, smaller) \o <<entry>>
               \o SelectSeq(schema, LAMBDA e : ~smaller(e))

\* allFields.add(key), for each key of keys in turn
RECURSIVE AddAll(_, _)
AddAll(set, keys) ==
    IF keys = <<>> THEN set
    ELSE AddAll(IF Includes(set, Head(keys)) THEN set ELSE Append(set, Head(keys)),
                Tail(keys))

\* mutant of CollectFields: only the first record of a file is looked at
CollectFirstRecordOnly(set, jsonData) ==
    IF jsonData = <<>> THEN set ELSE AddAll(set, ObjectKeys(Head(jsonData)))

\* first pass over one file: the keys of every record, in record order
RECURSIVE CollectFields(_, _)
CollectFields(set, jsonData) ==
    IF jsonData = <<>> THEN set
    ELSE CollectFields(AddAll(set, ObjectKeys(Head(jsonData))), Tail(jsonData))

\* second pass, the inner loop over the records of one file: the type of the
\* first value that is neither null nor undefined, "none" when there is none
RECURSIVE ScanRecords(_, _)
ScanRecords(jsonData, fieldName) ==
    IF jsonData = <<>> THEN "none"
    ELSE LET value == GetField(Head(jsonData), fieldName)
         IN  IF value # Null /\ value # Undefined
             THEN ClassifyValue(value)
             ELSE ScanRecords(Tail(jsonData), fieldName)

\* mutant of ScanFiles: the type is looked for in the first file only
ScanFirstFileOnly(fs, fieldName) ==
    IF fs = <<>> \/ ~JsonParse(Head(fs)).ok THEN "none"
    ELSE ScanRecords(JsonParse(Head(fs)).data, fieldName)

\* second pass, the fileLoop: files that do not parse are skipped
RECURSIVE ScanFiles(_, _)
ScanFiles(fs, fieldName) ==
    IF fs = <<>> THEN "none"
    ELSE LET parsed == JsonParse(Head(fs))
             found == IF parsed.ok THEN ScanRecords(parsed.data, fieldName)
                      ELSE "none"
         IN  IF found # "none" THEN found ELSE ScanFiles(Tail(fs), fieldName)

\* inferredType || {type: 'UTF8', optional: true}
InferField(fs, fieldName) ==
    LET inferredType == ScanFiles(fs, fieldName)
    IN  SchemaEntry(fieldName, IF inferredType = "none" THEN "UTF8" ELSE inferredType)


(***************************************************************************)
(* transformRecord and validateSchema.                                     *)
(***************************************************************************)
\* s[1] sep s[2] sep ... of a sequence of strings
RECURSIVE Join(_, _)
Join(strs, sep) ==
    IF strs = <<>> THEN ""
    ELSE IF Len(strs) = 1 THEN strs[1]
    ELSE strs[1] \o sep \o Join(Tail(strs), sep)

\* JSON.stringify(v): compact text, members in insertion order; a member whose
\* value is undefined is left out, an undefined array item is written null
RECURSIVE JsonStringify(_)
JsonStringify(v) ==
    IF v[1] = "null" THEN "null"
    ELSE IF v[1] = "string" THEN "\"" \o v[2] \o "\""
    ELSE IF v[1] = "number"
         THEN ToString(v[2]) \o (IF v[3] = 0 THEN "" ELSE "." \o ToString(v[3]))
    ELSE IF v[1] = "boolean" THEN (IF v[2] THEN "true" ELSE "false")
    ELSE IF v[1] = "date" THEN "\"" \o ToISOString(v[2]) \o "\""
    ELSE IF v[1] = "array"
         THEN "[" \o Join([i \in DOMAIN v[2] |->
                              IF v[2][i] = Undefined THEN "null"
                              ELSE JsonStringify(v[2][i])], ",") \o "]"
    ELSE LET kept == SelectSeq(v[2], LAMBDA m : m[2] # Undefined)
         IN  "{" \o Join([i \in DOMAIN kept |->
                             "\"" \o kept[i][1] \o "\":" \o JsonStringify(kept[i][2])],
                          ",") \o "}"

\* mutant of TransformValue: undefined is passed on unchanged
TransformKeepsUndefined(value) ==
    IF value = Null THEN Null
    ELSE IF IsObject(value) /\ value[1] # "date" THEN Str(JsonStringify(value))
    ELSE value

\* mutant of TransformValue: every value that is not null is serialized
TransformStringifiesAll(value) ==
    IF value = Null \/ value = Undefined THEN Null
    ELSE Str(JsonStringify(value))

\* the value transformRecord stores for value
TransformValue(value) ==
    IF value = Null \/ value = Undefined THEN Null
    ELSE IF IsObject(value) /\ value[1] # "date" THEN Str(JsonStringify(value))
    ELSE value

TransformRecord(record) ==
    [key \in DOMAIN record |-> TransformValue(record[key])]

\* one iteration of validateSchema's loop: no missing and no extra field
RecordConforms(schemaKeys, record) ==
    LET recordKeys == ObjectKeys(record)
        missingFields == SelectSeq(schemaKeys, LAMBDA key : ~KeyIn(key, record))
        extraFields == SelectSeq(recordKeys, LAMBDA key : ~Includes(schemaKeys, key))
    IN  Len(missingFields) = 0 /\ Len(extraFields) = 0

\* mutant of ValidateSchema: the validate option is not looked at
ValidateSchemaAlways(enabled, schema, records) ==
    \A r \in DOMAIN records : RecordConforms(SchemaNames(schema), records[r])

\* validateSchema(records) of a merger with options.validate = enabled and
\* inferredSchema = schema
ValidateSchema(enabled, schema, records) ==
    IF ~enabled THEN TRUE
    ELSE LET schemaKeys == SchemaNames(schema)
         IN  \A r \in DOMAIN records : RecordConforms(schemaKeys, records[r])

(***************************************************************************)
(* State.                                                                  *)
(***************************************************************************)
VARIABLES
    entry,          \* the method that was called
    input,          \* what fs.stat(options.input) finds: file, dir, missing
    listing,        \* the files discovery finds under options.input
    validate,       \* options.validate
    batchSize,      \* options.batchSize
    compression,    \* options.compression, as the caller passed it
    files,          \* the file list handed to inferSchema / processFiles
    pc,             \* control position
    i1,             \* inferSchema, first pass: index of the file being read
    allFields,      \* inferSchema: the Set allFields, in insertion order
    f2,             \* inferSchema, second pass: index of the field being typed
    schemaFields,   \* inferSchema: the object schemaFields
    inferredSchema, \* this.inferredSchema: << >> is null, <<schema>> is set
    inferResult,    \* outcome of inferSchema: pending, ok or the error thrown
    writer,         \* the sink: none, open, closed, closeFailed
    rows,           \* rows the sink has accepted through appendRow
    currentBatch,   \* processFiles: currentBatch
    fi,             \* processFiles: index i of the file loop (1-based)
    jsonData,       \* processFiles: jsonData of the current file
    isValid,        \* the value validateSchema returned last
    ri,             \* processFiles: index of the record being processed
    wi,             \* writeBatch: index of the record being appended
    finalFlush,     \* writeBatch was called for the remaining records
    processedCount, \* this.processedCount
    caught,         \* the error processFiles' catch block rethrows, or none
    pfResult,       \* outcome of processFiles: pending, ok or the error thrown
    result,         \* outcome of the called method
    reads,          \* history: fs.readFile calls <<phase, file index>> of the
                    \*   first pass of inferSchema and of processFiles
    sinkCalls,      \* history: calls made on ParquetWriter / the writer
    flushLog,       \* history: batch.length of every writeBatch call
    batchSrc,       \* history: <<file, record>> of each entry of currentBatch
    rowSrc,         \* history: <<file, record>> of each entry of rows
    thrownAt        \* history: <<Len(reads), Len(sinkCalls), Len(batchSrc)>> when
                    \*   processFiles' try block threw

optVars == <<entry, input, listing, validate, batchSize, compression>>
inferVars == <<i1, allFields, f2, schemaFields, inferResult>>
writeVars == <<writer, rows, currentBatch, fi, jsonData, isValid, ri, wi,
               finalFlush, processedCount, caught, pfResult>>
histVars == <<reads, sinkCalls, flushLog, batchSrc, rowSrc, thrownAt>>
vars == <<optVars, files, pc, inferVars, inferredSchema, writeVars, result, histVars>>

\* field initialisers of the class and the locals before they are assigned
Fresh ==
    /\ i1 = 1 /\ allFields = <<>> /\ f2 = 1 /\ schemaFields = <<>>
    /\ inferResult = "pending"
    /\ writer = "none" /\ rows = <<>> /\ currentBatch = <<>>
    /\ fi = 1 /\ isValid = TRUE /\ ri = 1 /\ wi = 1
    /\ finalFlush = FALSE /\ processedCount = 0 /\ caught = "none"
    /\ pfResult = "pending" /\ result = "pending"
    /\ reads = <<>> /\ sinkCalls = <<>> /\ flushLog = <<>>
    /\ batchSrc = <<>> /\ rowSrc = <<>> /\ thrownAt = <<>>

\* run() on a new merger
Init ==
    /\ entry = "run"
    /\ input \in {"missing", "file", "dir"}
    /\ listing \in FileLists
    /\ input = "missing" => listing = <<>>
    /\ input = "file" => Len(listing) = 1
    /\ validate \in BOOLEAN
    /\ batchSize \in BatchSizes
    /\ compression = "UNCOMPRESSED"
    /\ files = <<>>
    /\ inferredSchema = <<>>
    /\ pc = "run"
    /\ Fresh
    /\ jsonData = <<>>

(***************************************************************************)
(* run(): discovery.                                                       *)
(***************************************************************************)
\* mutant of NoFilesFound: run() goes on to inferSchema with an empty list
NoFilesNeverFound(list) == FALSE

\* files.length === 0
NoFilesFound(list) == Len(list) = 0

\* run(), up to the call of inferSchema.  A missing input path makes
\* discoverFiles throw, which run() reports as 'Processing failed'; an empty
\* file list makes run() return.
Discover ==
    /\ pc = "run"
    /\ IF input = "missing"
       THEN /\ result' = "Processing failed"
            /\ pc' = "done"
            /\ files' = files
       ELSE /\ files' = listing
            /\ IF NoFilesFound(listing)
               THEN result' = "ok" /\ pc' = "done"
               ELSE result' = result /\ pc' = "p1"
    /\ UNCHANGED <<optVars, inferVars, inferredSchema, writeVars, histVars>>

(***************************************************************************)
(* inferSchema.                                                            *)
(***************************************************************************)
\* mutant of InferThrows: run() goes on to processFiles after the error
InferThrowsIgnored(e) ==
    /\ inferResult' = e
    /\ result' = result
    /\ pc' = "pf"

\* inferSchema throws e: run() catches it and throws 'Processing failed'
InferThrows(e) ==
    /\ inferResult' = e
    /\ result' = IF entry = "run" THEN "Processing failed" ELSE e
    /\ pc' = "done"

\* `Failed to parse JSON from ${file}`, for the file at index i of files
FailedToParse(i) == "Failed to parse JSON from file " \o ToString(i)

\* mutant of NoFieldsFound: the check after the first pass is left out
NoFieldsNeverFound(fields) == FALSE

\* allFields.size === 0
NoFieldsFound(fields) == Len(fields) = 0

\* first pass, the end of one iteration that leaves allFields = fields: the
\* next file, or after the last file the check that some field was found
Pass1Continue(fields) ==
    /\ allFields' = fields
    /\ i1' = i1 + 1
    /\ IF i1 < Len(files)
       THEN UNCHANGED <<pc, inferResult, result>>
       ELSE IF NoFieldsFound(fields)
       THEN InferThrows("NoFields")
       ELSE pc' = "p2" /\ UNCHANGED <<inferResult, result>>

\* mutant of Pass1ParseFailure: the file is skipped, as the second pass does
Pass1ParseFailureSkips == Pass1Continue(allFields)

\* first pass, the catch of JSON.parse: the error is thrown on
Pass1ParseFailure == InferThrows(FailedToParse(i1)) /\ UNCHANGED <<i1, allFields>>

\* first pass, one file: readFile, JSON.parse, collect the field names; after
\* the last file, the check that some field was found
Pass1File ==
    /\ pc = "p1"
    /\ i1 <= Len(files)
    /\ reads' = Append(reads, <<"infer", i1>>)
    /\ \E readOk \in BOOLEAN :
         LET parsed == JsonParse(files[i1])
             fields == CollectFields(allFields, parsed.data)
         IN  IF ~readOk
             THEN InferThrows("ReadError") /\ UNCHANGED <<i1, allFields>>
             ELSE IF ~parsed.ok
             THEN Pass1ParseFailure
             ELSE Pass1Continue(fields)
    /\ UNCHANGED <<optVars, files, f2, schemaFields, inferredSchema, writeVars,
                   sinkCalls, flushLog, batchSrc, rowSrc, thrownAt>>

\* mutant of LastField: the schema is assigned after the first field
AnyFieldLast == TRUE

\* the loop over allFields has no field left after field f2
LastField == f2 >= Len(allFields)

\* this.inferredSchema = new ParquetSchema(schemaFields), and the return to
\* the caller: run() calls processFiles next
InferReturns(fields) ==
    /\ inferredSchema' = <<fields>>
    /\ inferResult' = "ok"
    /\ IF entry = "run"
       THEN pc' = "pf" /\ result' = result
       ELSE pc' = "done" /\ result' = "ok"

\* second pass, one field: scan the files for its first non-null value and set
\* its schema entry; after the last field, build the schema and return
Pass2Field ==
    /\ pc = "p2"
    /\ f2 <= Len(allFields)
    /\ \E readOk \in BOOLEAN :
         IF ~readOk
         THEN InferThrows("ReadError") /\ UNCHANGED <<f2, schemaFields, inferredSchema>>
         ELSE LET fields == SetEntry(schemaFields, InferField(files, allFields[f2]))
              IN  /\ schemaFields' = fields
                  /\ f2' = f2 + 1
                  /\ IF ~LastField
                     THEN UNCHANGED <<pc, inferResult, inferredSchema, result>>
                     ELSE InferReturns(fields)
    /\ UNCHANGED <<optVars, files, i1, allFields, writeVars, histVars>>

(***************************************************************************)
(* processFiles and writeBatch.                                            *)
(***************************************************************************)
\* mutant of ProcessEnds: run() swallows the error of processFiles
ProcessEndsSwallowed(e) ==
    /\ pfResult' = e
    /\ result' = "ok"
    /\ pc' = "done"

\* processFiles ends with outcome e ("ok" or the error it throws); run()
\* reports an error as 'Processing failed'
ProcessEnds(e) ==
    /\ pfResult' = e
    /\ result' = IF e = "ok" THEN "ok"
                 ELSE IF entry = "run" THEN "Processing failed" ELSE e
    /\ pc' = "done"

\* the schema guard and ParquetWriter.openFile
OpenWriter ==
    /\ pc = "pf"
    /\ IF inferredSchema = <<>>
       THEN ProcessEnds("SchemaNotInferred") /\ UNCHANGED <<writer, sinkCalls>>
       ELSE /\ sinkCalls' = Append(sinkCalls, "openFile")
            /\ \E openOk \in BOOLEAN :
                 IF openOk
                 THEN writer' = "open" /\ pc' = "file" /\ UNCHANGED <<pfResult, result>>
                 ELSE ProcessEnds("OpenError") /\ writer' = writer
    /\ UNCHANGED <<optVars, files, inferVars, inferredSchema, rows, currentBatch, fi,
                   jsonData, isValid, ri, wi, finalFlush, processedCount, caught,
                   reads, flushLog, batchSrc, rowSrc, thrownAt>>

\* mutant of Throw: no finally block, the error leaves processFiles at once
ThrowWithoutFinally(e, calls) ==
    /\ caught' = e
    /\ thrownAt' = <<calls[1], calls[2], Len(batchSrc)>>
    /\ ProcessEnds(e)

\* an error thrown inside the try block (calls: the reads and sink calls made,
\* the failing one included): the catch block logs and rethrows it, and the
\* finally block is next
Throw(e, calls) ==
    /\ caught' = e
    /\ thrownAt' = <<calls[1], calls[2], Len(batchSrc)>>
    /\ pc' = "close"
    /\ UNCHANGED <<pfResult, result>>

\* mutant of ParseFailureSkips: the parse error leaves the try block
ParseFailureThrows ==
    /\ Throw("ParseError", <<Len(reads) + 1, Len(sinkCalls)>>)
    /\ fi' = fi

\* the catch of JSON.parse in the file loop: log and continue
ParseFailureSkips ==
    /\ fi' = fi + 1
    /\ UNCHANGED <<pc, caught, thrownAt, pfResult, result>>

\* mutant of SkipFile: a file that fails validation is processed all the same
NeverSkipFile(valid) == FALSE

\* if (!isValid) ... continue
SkipFile(valid) == ~valid

\* mutant of BatchFull: > for >=
BatchFullOffByOne(batch) == Len(batch) > batchSize

\* mutant of HasRemaining: the remaining records are never written
NoRemaining == FALSE

\* mutant of BatchFull: the batch is also written at the end of every file
BatchFullAtFileEnd(batch) == Len(batch) >= batchSize \/ ri >= Len(jsonData)

\* currentBatch.length >= this.options.batchSize
BatchFull(batch) == Len(batch) >= batchSize

\* currentBatch.length > 0, after the file loop
HasRemaining == Len(currentBatch) > 0

\* one iteration of the file loop up to the record loop: readFile, JSON.parse,
\* validateSchema.  A file that does not parse or does not validate is skipped.
ReadFile ==
    /\ pc = "file"
    /\ fi <= Len(files)
    /\ reads' = Append(reads, <<"write", fi>>)
    /\ \E readOk \in BOOLEAN :
         LET parsed == JsonParse(files[fi])
             valid == ValidateSchema(validate, inferredSchema[1], parsed.data)
         IN  IF ~readOk
             THEN /\ Throw("ReadError", <<Len(reads) + 1, Len(sinkCalls)>>)
                  /\ UNCHANGED <<fi, jsonData, isValid, ri>>
             ELSE IF ~parsed.ok
             THEN ParseFailureSkips /\ UNCHANGED <<jsonData, isValid, ri>>
             ELSE /\ jsonData' = parsed.data
                  /\ isValid' = valid
                  /\ UNCHANGED <<caught, thrownAt, pfResult, result>>
                  /\ IF ~SkipFile(valid) /\ Len(parsed.data) > 0
                     THEN pc' = "rec" /\ ri' = 1 /\ fi' = fi
                     ELSE pc' = pc /\ ri' = ri /\ fi' = fi + 1
    /\ UNCHANGED <<optVars, files, inferVars, inferredSchema, writer, rows,
                   currentBatch, wi, finalFlush, processedCount,
                   sinkCalls, flushLog, batchSrc, rowSrc>>

\* where the record loop goes on after record ri: the next record of the
\* file, or the next file
NextRecord ==
    IF ri < Len(jsonData)
    THEN ri' = ri + 1 /\ pc' = "rec" /\ fi' = fi
    ELSE ri' = ri /\ pc' = "file" /\ fi' = fi + 1

\* one iteration of the record loop: transformRecord, push, and the call of
\* writeBatch when the batch is full
ProcessRecord ==
    /\ pc = "rec"
    /\ LET batch == Append(currentBatch, TransformRecord(jsonData[ri]))
       IN  /\ currentBatch' = batch
           /\ batchSrc' = Append(batchSrc, <<fi, ri>>)
           /\ IF BatchFull(batch)
              THEN /\ pc' = "flush"
                   /\ wi' = 1
                   /\ finalFlush' = FALSE
                   /\ flushLog' = Append(flushLog, Len(batch))
                   /\ UNCHANGED <<fi, ri>>
              ELSE NextRecord /\ UNCHANGED <<wi, finalFlush, flushLog>>
    /\ UNCHANGED <<optVars, files, inferVars, inferredSchema, writer, rows, jsonData,
                   isValid, processedCount, caught, pfResult, result, reads,
                   sinkCalls, rowSrc, thrownAt>>

\* after the file loop: writeBatch for the remaining records, if any
FinishLoop ==
    /\ pc = "file"
    /\ fi > Len(files)
    /\ IF HasRemaining
       THEN /\ pc' = "flush"
            /\ wi' = 1
            /\ finalFlush' = TRUE
            /\ flushLog' = Append(flushLog, Len(currentBatch))
       ELSE pc' = "close" /\ UNCHANGED <<wi, finalFlush, flushLog>>
    /\ UNCHANGED <<optVars, files, inferVars, inferredSchema, writer, rows,
                   currentBatch, fi, jsonData, isValid, ri, processedCount, caught,
                   pfResult, result, reads, sinkCalls, batchSrc, rowSrc, thrownAt>>

\* mutant of CountAfterBatch: the counter grows by one per batch
CountAfterBatchPlusOne(batch) == processedCount + 1

\* this.processedCount += batch.length, after the loop of writeBatch
CountAfterBatch(batch) == processedCount + Len(batch)

\* mutant of CountAfterRow: every appended row is counted at once
CountedPerRow == processedCount + 1

\* processedCount after an appendRow that is not the last of its batch: the
\* loop of writeBatch does not touch the counter
CountAfterRow == processedCount

\* mutant of BatchRecord: the first record of the batch is appended each time
BatchFirstRecord(batch, i) == batch[1]

\* for (const record of batch): the record of iteration i
BatchRecord(batch, i) == batch[i]

\* writeBatch, one appendRow; after the last one the counter grows by
\* batch.length and processFiles goes on (currentBatch = [] in the loop)
AppendRow ==
    /\ pc = "flush"
    /\ sinkCalls' = Append(sinkCalls, "appendRow")
    /\ \E appendOk \in BOOLEAN :
         IF ~appendOk
         THEN /\ Throw("AppendError", <<Len(reads), Len(sinkCalls) + 1>>)
              /\ UNCHANGED <<rows, rowSrc, wi, processedCount, currentBatch,
                             batchSrc, fi, ri>>
         ELSE /\ rows' = Append(rows, BatchRecord(currentBatch, wi))
              /\ rowSrc' = Append(rowSrc, batchSrc[wi])
              /\ UNCHANGED <<caught, thrownAt, pfResult, result>>
              /\ IF wi < Len(currentBatch)
                 THEN /\ wi' = wi + 1
                      /\ processedCount' = CountAfterRow
                      /\ UNCHANGED <<pc, currentBatch, batchSrc, fi, ri>>
                 ELSE /\ wi' = wi
                      /\ processedCount' = CountAfterBatch(currentBatch)
                      /\ IF finalFlush
                         THEN pc' = "close" /\ UNCHANGED <<currentBatch, batchSrc, fi, ri>>
                         ELSE currentBatch' = <<>> /\ batchSrc' = <<>> /\ NextRecord
    /\ UNCHANGED <<optVars, files, inferVars, inferredSchema, writer, jsonData,
                   isValid, finalFlush, reads, flushLog>>

\* finally: writer.close().  An error thrown by close replaces the one the
\* catch block rethrew.
CloseWriter ==
    /\ pc = "close"
    /\ sinkCalls' = Append(sinkCalls, "close")
    /\ \E closeOk \in BOOLEAN :
         IF ~closeOk
         THEN writer' = "closeFailed" /\ ProcessEnds("CloseError")
         ELSE /\ writer' = "closed"
              /\ IF caught # "none" THEN ProcessEnds(caught) ELSE ProcessEnds("ok")
    /\ UNCHANGED <<optVars, files, inferVars, inferredSchema, rows, currentBatch, fi,
                   jsonData, isValid, ri, wi, finalFlush, processedCount, caught,
                   reads, flushLog, batchSrc, rowSrc, thrownAt>>

Next ==
    \/ Discover
    \/ Pass1File
    \/ Pass2Field
    \/ OpenWriter
    \/ ReadFile
    \/ ProcessRecord
    \/ FinishLoop
    \/ AppendRow
    \/ CloseWriter

Spec == Init /\ [][Next]_vars

(***************************************************************************)
(* processFiles(files) called directly, on a merger whose inferredSchema   *)
(* was assigned beforehand or left null.                                   *)
(***************************************************************************)
PresetSchemas ==
    { <<>>,
      << <<SchemaEntry("id", "INT64"), SchemaEntry("score", "INT64")>> >>,
      << <<SchemaEntry("score", "DOUBLE")>> >> }

InitProcess ==
    /\ entry = "processFiles"
    /\ input = "dir"
    /\ listing = <<>>
    /\ validate \in BOOLEAN
    /\ batchSize \in BatchSizes
    /\ compression = "UNCOMPRESSED"
    /\ files \in FileLists
    /\ inferredSchema \in PresetSchemas
    /\ pc = "pf"
    /\ Fresh
    /\ jsonData = <<>>

NextProcess ==
    \/ OpenWriter
    \/ ReadFile
    \/ ProcessRecord
    \/ FinishLoop
    \/ AppendRow
    \/ CloseWriter

SpecProcess == InitProcess /\ [][NextProcess]_vars

(***************************************************************************)
(* validateSchema(records) called directly, on a merger whose              *)
(* inferredSchema was assigned beforehand.                                 *)
(***************************************************************************)
\* records over the names of FieldOrder; id holds a number or a string
ValidatedPool ==
    LET withId == {<<>>} \cup {[id |-> v] : v \in {Num(1, 0), Str("x")}}
        withScore == {<<>>} \cup {[score |-> Num(85, 5)]}
        withCtor == {<<>>} \cup {[constructor |-> Str("c")]}
    IN  {a @@ b @@ c : a \in withId, b \in withScore, c \in withCtor}

SchemaTypeOf(name) ==
    IF name = "id" THEN "INT64" ELSE IF name = "score" THEN "DOUBLE" ELSE "UTF8"

\* the schemas over the names of FieldOrder, in that order
ValidatedSchemas ==
    { LET names == SelectSeq(FieldOrder, LAMBDA k : k \in S)
      IN  [i \in DOMAIN names |-> SchemaEntry(names[i], SchemaTypeOf(names[i]))]
      : S \in SUBSET Range(FieldOrder) }

InitValidate ==
    /\ entry = "validateSchema"
    /\ input = "dir"
    /\ listing = <<>>
    /\ validate \in BOOLEAN
    /\ batchSize = 1
    /\ compression = "UNCOMPRESSED"
    /\ files = <<>>
    /\ \E schema \in ValidatedSchemas : inferredSchema = <<schema>>
    /\ pc = "validate"
    /\ Fresh
    /\ jsonData \in SeqsUpTo(ValidatedPool, MaxValidated)

\* the call validateSchema(jsonData)
ValidateCall ==
    /\ pc = "validate"
    /\ isValid' = ValidateSchema(validate, inferredSchema[1], jsonData)
    /\ result' = "ok"
    /\ pc' = "done"
    /\ UNCHANGED <<optVars, files, inferVars, inferredSchema, writer, rows,
                   currentBatch, fi, jsonData, ri, wi, finalFlush, processedCount,
                   caught, pfResult, histVars>>

NextValidate == ValidateCall

SpecValidate == InitValidate /\ [][NextValidate]_vars

(***************************************************************************)
(* inferSchema(files) called directly on a new merger.  The records include *)
(* the empty object and records with disjoint sets of names; the file list *)
(* may be empty.                                                           *)
(***************************************************************************)
\* the values the option --compression takes
Compressions == {"UNCOMPRESSED", "GZIP", "SNAPPY", "BROTLI"}

InferPool ==
    { <<>>,
      [score |-> Null],
      JsonReadBack([id |-> DateVal(0)]),
      [id |-> Num(2, 0), score |-> Num(85, 0)],
      [k \in {"7"} |-> Str("x")] }

ContentsOver(pool, n) ==
    {InvalidJson}
      \cup {JsonArray(s) : s \in SeqsUpTo(pool, n)}
      \cup {JsonObject(r) : r \in IF n > 0 THEN pool ELSE {}}

RECURSIVE FileListsOver(_, _, _)
FileListsOver(pool, nFiles, budget) ==
    IF nFiles = 0 THEN {<<>>}
    ELSE UNION { { <<c>> \o rest :
                     rest \in FileListsOver(pool, nFiles - 1,
                                            budget - Len(JsonParse(c).data)) }
                 : c \in ContentsOver(pool, budget) }

InferFileLists == UNION {FileListsOver(InferPool, n, MaxInferred) : n \in 0..MaxFiles}

InitInfer ==
    /\ entry = "inferSchema"
    /\ input = "dir"
    /\ listing = <<>>
    /\ validate = FALSE
    /\ batchSize = 1
    /\ compression \in Compressions
    /\ files \in InferFileLists
    /\ inferredSchema = <<>>
    /\ pc = "p1"
    /\ Fresh
    /\ jsonData = <<>>

\* inferSchema([]): neither loop has an iteration, and no field was found
InferEmptyList ==
    /\ pc = "p1"
    /\ Len(files) = 0
    /\ InferThrows("NoFields")
    /\ UNCHANGED <<optVars, files, i1, allFields, f2, schemaFields, inferredSchema,
                   writeVars, histVars>>

NextInfer ==
    \/ InferEmptyList
    \/ Pass1File
    \/ Pass2Field

SpecInfer == InitInfer /\ [][NextInfer]_vars

(***************************************************************************)
(* The classification of inferSchema's second pass, for the field id over  *)
(* the records of one file, and transformRecord(record) called directly,   *)
(* over values of every kind.  transformRecord is then called once more on *)
(* the record it returned.                                                 *)
(***************************************************************************)
\* values that are neither null nor undefined, of every kind typeof and
\* instanceof Date tell apart
JsValues ==
    {Str(""), Str("test"), Str("2024-01-01T00:00:00.000Z")}
      \cup {Num(w, t) : w \in {-1, 0, 3, 42}, t \in {0, 1, 5}}
      \cup {Bool(TRUE), Bool(FALSE)}
      \cup {DateVal(0), DateVal(86400000)}
      \cup {Obj(<<>>), Obj(<< <<"nested", Str("value")>> >>),
            Arr(<<>>), Arr(<<Num(1, 0), Num(2, 0), Num(3, 0)>>)}

\* records before the one that holds the value: none, id is null, id is absent
ClassifiedPrefixes == {<<>>, <<[id |-> Null]>>, <<[score |-> Num(1, 5)]>>}

InitClassify ==
    /\ entry = "inferSchema"
    /\ input = "dir"
    /\ listing = <<>>
    /\ validate = FALSE
    /\ batchSize = 1
    /\ compression = "UNCOMPRESSED"
    /\ files = <<>>
    /\ inferredSchema = <<>>
    /\ pc = "classify"
    /\ Fresh
    /\ \E prefix \in ClassifiedPrefixes, v \in JsValues :
         jsonData = prefix \o <<[id |-> v]>>

\* the record loop of the second pass for the field id, and the assignment
\* to schemaFields
ClassifyField ==
    /\ pc = "classify"
    /\ LET inferredType == ScanRecords(jsonData, "id")
       IN  schemaFields' =
             SetEntry(schemaFields,
                      SchemaEntry("id", IF inferredType = "none" THEN "UTF8"
                                        ELSE inferredType))
    /\ pc' = "done"
    /\ result' = "ok"
    /\ UNCHANGED <<optVars, files, i1, allFields, f2, inferResult, inferredSchema,
                   writeVars, histVars>>

NextClassify == ClassifyField

SpecClassify == InitClassify /\ [][NextClassify]_vars

\* records of one or two fields over all kinds of values
TransformedPool ==
    LET all == JsValues \cup {Null, Undefined}
    IN  {<<>>}
          \cup {[id |-> v] : v \in all}
          \cup {[id |-> v, score |-> w] :
                  v \in all, w \in {Undefined, Str("x"), Arr(<<Undefined, Null>>)}}

InitTransform ==
    /\ entry = "transformRecord"
    /\ input = "dir"
    /\ listing = <<>>
    /\ validate = FALSE
    /\ batchSize = 1
    /\ compression = "UNCOMPRESSED"
    /\ files = <<>>
    /\ inferredSchema = <<>>
    /\ pc = "transform"
    /\ Fresh
    /\ \E record \in TransformedPool : jsonData = <<record>>

\* transformRecord(record): the returned record is kept in currentBatch
TransformCall ==
    /\ pc = "transform"
    /\ currentBatch' = Append(currentBatch, TransformRecord(jsonData[1]))
    /\ result' = "ok"
    /\ pc' = "again"
    /\ UNCHANGED <<optVars, files, inferVars, inferredSchema, writer, rows, fi,
                   jsonData, isValid, ri, wi, finalFlush, processedCount, caught,
                   pfResult, histVars>>

\* transformRecord called on the record the first call returned
TransformAgain ==
    /\ pc = "again"
    /\ currentBatch' = Append(currentBatch, TransformRecord(currentBatch[1]))
    /\ result' = "ok"
    /\ pc' = "done"
    /\ UNCHANGED <<optVars, files, inferVars, inferredSchema, writer, rows, fi,
                   jsonData, isValid, ri, wi, finalFlush, processedCount, caught,
                   pfResult, histVars>>

NextTransform ==
    \/ TransformCall
    \/ TransformAgain

SpecTransform == InitTransform /\ [][NextTransform]_vars

(***************************************************************************)
(* new JsonParquetMerger(options) followed by run(), by a caller other     *)
(* than main(): options.batchSize is any integer, zero and negative ones   *)
(* included.                                                               *)
(***************************************************************************)
ConstructedBatchSizes == -1..MaxBatch

InitConstruct ==
    /\ entry = "run"
    /\ input = "dir"
    /\ listing \in FileLists
    /\ validate = FALSE
    /\ batchSize \in ConstructedBatchSizes
    /\ compression = "UNCOMPRESSED"
    /\ files = <<>>
    /\ inferredSchema = <<>>
    /\ pc = "new"
    /\ Fresh
    /\ jsonData = <<>>

\* the constructor: this.options = options
Construct ==
    /\ pc = "new"
    /\ pc' = "run"
    /\ UNCHANGED <<optVars, files, inferVars, inferredSchema, writeVars, result,
                   histVars>>

NextConstruct ==
    \/ Construct
    \/ Next

SpecConstruct == InitConstruct /\ [][NextConstruct]_vars

(***************************************************************************)
(* run() with validation enabled over files one of whose field names,      *)
(* constructor, is also a property every object inherits.                  *)
(***************************************************************************)
InheritedNamePool ==
    { [id |-> Num(1, 0)],
      [id |-> Num(1, 0), constructor |-> Str("c")] }

InitRunValidated ==
    /\ entry = "run"
    /\ input = "dir"
    /\ listing \in UNION {FileListsOver(InheritedNamePool, n, MaxRecords) : n \in 0..MaxFiles}
    /\ validate = TRUE
    /\ batchSize \in BatchSizes
    /\ compression = "UNCOMPRESSED"
    /\ files = <<>>
    /\ inferredSchema = <<>>
    /\ pc = "run"
    /\ Fresh
    /\ jsonData = <<>>

SpecRunValidated == InitRunValidated /\ [][Next]_vars

(***************************************************************************)
(* Properties.                                                             *)
(***************************************************************************)
\* all records of the files, in input order and record order
RECURSIVE Flatten(_)
Flatten(fs) ==
    IF fs = <<>> THEN <<>> ELSE JsonParse(Head(fs)).data \o Flatten(Tail(fs))

\* the record holds a value for the name that is neither null nor undefined
HasValue(record, name) ==
    name \in DOMAIN record /\ record[name] # Null /\ record[name] # Undefined

FieldNamesOf(fs) == UNION {DOMAIN r : r \in Range(Flatten(fs))}

Admitted(k) ==
    /\ JsonParse(files[k]).ok
    /\ ValidateSchema(validate, inferredSchema[1], JsonParse(files[k]).data)

\* file k parses and validateSchema returns false for it
Rejected(k) ==
    /\ validate
    /\ JsonParse(files[k]).ok
    /\ ~ValidateSchema(validate, inferredSchema[1], JsonParse(files[k]).data)

\* the records of the admitted files k, k+1, ..., in order
RECURSIVE AdmittedFrom(_)
AdmittedFrom(k) ==
    IF k > Len(files) THEN <<>>
    ELSE (IF Admitted(k) THEN JsonParse(files[k]).data ELSE <<>>) \o AdmittedFrom(k + 1)

CeilDiv(n, b) == (n + b - 1) \div b

\* processFiles opened the sink and its try block ended without an error
WritePhaseCompleted == pc = "done" /\ writer # "none" /\ caught = "none"

\* C3: a write phase that admits N records calls writeBatch ceil(N/B) times
\* and leaves processedCount = N; every call but the last carries B records.
C3_BatchAccounting ==
    WritePhaseCompleted =>
      LET N == Len(AdmittedFrom(1))
      IN  /\ Len(flushLog) = CeilDiv(N, batchSize)
          /\ processedCount = N
          /\ \A i \in DOMAIN flushLog :
               /\ flushLog[i] \in 1..batchSize
               /\ i < Len(flushLog) => flushLog[i] = batchSize

\* three records with batch size 2: a full batch, then the remaining record
C3_Witness ==
    WritePhaseCompleted /\ batchSize = 2 /\ flushLog = <<2, 1>> /\ processedCount = 3

\* C4: without a fatal error, the rows appended to the sink are the
\* transformed records of the admitted files, in file order then record order.
C4_RowsInFileThenRecordOrder ==
    WritePhaseCompleted =>
      LET admitted == AdmittedFrom(1)
      IN  rows = [i \in DOMAIN admitted |-> TransformRecord(admitted[i])]

\* three rows from two files, a batch of 2 spanning the file boundary
C4_Witness ==
    /\ WritePhaseCompleted
    /\ batchSize = 2
    /\ rowSrc = << <<1, 1>>, <<2, 1>>, <<2, 2>> >>
    /\ rows[2] # rows[3]

\* C5: a file for which validateSchema returns false contributes no record to
\* the batch or the sink, and processing goes on with the next file with no
\* error raised.
C5_InvalidFileSkippedWhole ==
    writer # "none" =>
      \A k \in DOMAIN files :
        Rejected(k) =>
          /\ \A i \in DOMAIN rowSrc : rowSrc[i][1] # k
          /\ \A i \in DOMAIN batchSrc : batchSrc[i][1] # k
          /\ pc \in {"rec", "flush"} => fi # k
          /\ (<<"write", k>> \in Range(reads) /\ ~(caught = "ReadError" /\ fi = k))
               => fi > k
          /\ (pc = "file" /\ fi = k + 1) => (caught = "none" /\ pfResult = "pending")

\* the first file holds a conforming and a non-conforming record and is
\* skipped; the second file is written and the call succeeds
C5_Witness ==
    /\ pc = "done" /\ pfResult = "ok" /\ validate
    /\ Len(files) = 2
    /\ Rejected(1)
    /\ \E i \in DOMAIN JsonParse(files[1]).data :
         RecordConforms(SchemaNames(inferredSchema[1]), JsonParse(files[1]).data[i])
    /\ rowSrc = << <<2, 1>> >>

\* C6: with validation enabled, validateSchema returns true exactly when every
\* record's set of field names equals the schema's set of field names.
C6_ValidIffSameFieldNames ==
    (pc = "done" /\ entry = "validateSchema" /\ validate) =>
      (isValid <=> \A i \in DOMAIN jsonData :
                     DOMAIN jsonData[i] = Range(SchemaNames(inferredSchema[1])))

\* C7: with validation disabled, validateSchema returns true for every batch.
C7_DisabledValidationAccepts ==
    (pc = "done" /\ entry = "validateSchema" /\ ~validate) => isValid

\* validation disabled, a record lacks a schema field and has an extra one
C7_Witness ==
    /\ pc = "done" /\ entry = "validateSchema" /\ ~validate /\ isValid
    /\ SchemaNames(inferredSchema[1]) = <<"id">>
    /\ \E i \in DOMAIN jsonData : DOMAIN jsonData[i] = {"score"}

\* positions of sinkCalls at which close was called
Closes == {i \in DOMAIN sinkCalls : sinkCalls[i] = "close"}

\* C8: once the sink is open, close is called exactly once by the time
\* processFiles ends, on every path, and no call on the sink follows it.
C8_ClosedExactlyOnce ==
    /\ Cardinality(Closes) <= 1
    /\ \A i \in Closes : i = Len(sinkCalls)
    /\ writer = "none" => Closes = {}
    /\ (pc = "done" /\ writer # "none") => Cardinality(Closes) = 1

\* appendRow failed after a row was accepted, and close was the last call
C8_Witness ==
    /\ pc = "done" /\ caught = "AppendError" /\ Len(rows) = 1
    /\ sinkCalls = <<"openFile", "appendRow", "appendRow", "close">>

\* C9: when processing failed with an error and close then fails too,
\* processFiles reports the processing error.
C9_CloseFailureDoesNotMask ==
    (pc = "done" /\ caught # "none" /\ writer = "closeFailed") => pfResult = caught

\* C10: after an error in the write phase no file is read, no record is
\* transformed and no row is appended; close is attempted and the error
\* reaches the caller of processFiles.
C10_FatalErrorAborts ==
    caught # "none" =>
      /\ Len(reads) = thrownAt[1]
      /\ Len(batchSrc) = thrownAt[3]
      /\ \A i \in DOMAIN sinkCalls : i > thrownAt[2] => sinkCalls[i] = "close"
      /\ pc = "done" => (sinkCalls[Len(sinkCalls)] = "close" /\ pfResult = caught)

\* C11: in the write phase a file whose content does not parse contributes no
\* record to the batch or the sink and raises no error, and every later file
\* is still processed.
C11_UnparsableFileSkippedInWritePhase ==
    writer # "none" =>
      \A k \in DOMAIN files :
        ~JsonParse(files[k]).ok =>
          /\ \A i \in DOMAIN rowSrc : rowSrc[i][1] # k
          /\ \A i \in DOMAIN batchSrc : batchSrc[i][1] # k
          /\ caught \notin {"ParseError"} /\ pfResult # "ParseError"
          /\ (<<"write", k>> \in Range(reads) /\ ~(caught = "ReadError" /\ fi = k))
               => fi > k
          /\ (pc = "file" /\ fi = k + 1) => (caught = "none" /\ pfResult = "pending")
          /\ WritePhaseCompleted =>
               \A j \in DOMAIN files :
                 (j > k /\ Admitted(j)) =>
                   \A r \in DOMAIN JsonParse(files[j]).data : <<j, r>> \in Range(rowSrc)

\* the first file is not JSON; both records of the second file are written and
\* the call succeeds
C11_Witness ==
    /\ pc = "done" /\ pfResult = "ok"
    /\ Len(files) = 2
    /\ files[1] = InvalidJson
    /\ rowSrc = << <<2, 1>>, <<2, 2>> >>

\* C12: during inference a file whose content does not parse makes inferSchema
\* fail at once with an error naming that file: the file is not skipped, no
\* later file is read and no schema is set.
C12_UnparsableFileAbortsInference ==
    /\ inferResult = "ok" => \A k \in DOMAIN files : JsonParse(files[k]).ok
    /\ \A k \in DOMAIN files :
         (/\ ~JsonParse(files[k]).ok
          /\ <<"infer", k>> \in Range(reads)
          /\ inferResult # "ReadError")
           => /\ inferResult = FailedToParse(k)
              /\ pc = "done"
              /\ result # "ok"
              /\ inferredSchema = <<>>
              /\ reads = [j \in 1..k |-> <<"infer", j>>]

\* the second of two files is not JSON: inference fails naming it
C12_Witness ==
    /\ Len(files) = 2
    /\ JsonParse(files[1]).ok /\ Len(JsonParse(files[1]).data) > 0
    /\ files[2] = InvalidJson
    /\ inferResult = FailedToParse(2)
    /\ Len(reads) = 2
    /\ inferredSchema = <<>>

\* C13: inferSchema fails with the no-fields error whenever no record of any
\* file has a field (every file parses to zero records, or to records without
\* fields), and then no schema is set.
C13_NoFieldsFails ==
    /\ inferResult = "NoFields" =>
         /\ pc = "done" /\ result # "ok" /\ inferredSchema = <<>>
         /\ FieldNamesOf(files) = {}
         /\ \A k \in DOMAIN files : JsonParse(files[k]).ok
    /\ (/\ FieldNamesOf(files) = {}
        /\ \A k \in DOMAIN files : JsonParse(files[k]).ok)
         => /\ inferResult \in {"pending", "ReadError", "NoFields"}
            /\ pc \in {"run", "p1", "done"}
            /\ (pc = "p1" /\ Len(files) > 0) => i1 <= Len(files)
            /\ (pc = "done" /\ inferResult = "pending") => (entry = "run" /\ files = <<>>)

\* one file holding the empty array (the test 'should throw error for empty
\* data')
C13_Witness ==
    /\ files = <<JsonArray(<<>>)>>
    /\ inferResult = "NoFields"
    /\ reads = << <<"infer", 1>> >>
    /\ inferredSchema = <<>>

\* C15: every entry of the inferred schema is optional and carries the
\* configured compression.
C15_EntriesOptionalWithCompression ==
    inferResult = "ok" =>
      \A e \in Range(inferredSchema[1]) :
        /\ e.optional
        /\ "compression" \in DOMAIN e
        /\ e.compression = compression

\* the field names of the records of one file
FieldsOfFile(content) == UNION {DOMAIN r : r \in Range(JsonParse(content).data)}

\* C16: for two files A and B with disjoint field sets, the schema inferred
\* over [A, B] has the field names of A and B, as over [B, A], and every field
\* of A precedes every field of B.
C16_FirstDiscoveryOrder ==
    (/\ inferResult = "ok"
     /\ Len(files) = 2
     /\ FieldsOfFile(files[1]) \cap FieldsOfFile(files[2]) = {})
      => LET names == SchemaNames(inferredSchema[1])
         IN  /\ Range(names) = FieldsOfFile(files[1]) \cup FieldsOfFile(files[2])
             /\ \A i, j \in DOMAIN names :
                  (names[i] \in FieldsOfFile(files[1]) /\ names[j] \in FieldsOfFile(files[2]))
                    => i < j

\* the first value of the field id that is neither null nor undefined
FirstIdValue ==
    LET hits == {i \in DOMAIN jsonData : HasValue(jsonData[i], "id")}
    IN  jsonData[CHOOSE i \in hits : \A j \in hits : i <= j]["id"]

\* C14: the first non-null value classifies the field: string -> UTF8 (TEXT),
\* number without a fractional part -> INT64, number with one -> DOUBLE,
\* boolean -> BOOLEAN, date -> TIMESTAMP_MILLIS, object or list -> UTF8.
C14_Classification ==
    (pc = "done" /\ entry = "inferSchema" /\ Len(jsonData) > 0) =>
      LET v == FirstIdValue
          expected ==
            CASE v[1] = "string" -> "UTF8"
              [] v[1] = "number" /\ v[3] = 0 -> "INT64"
              [] v[1] = "number" /\ v[3] # 0 -> "DOUBLE"
              [] v[1] = "boolean" -> "BOOLEAN"
              [] v[1] = "date" -> "TIMESTAMP_MILLIS"
              [] v[1] \in {"object", "array"} -> "UTF8"
      IN  schemaFields = <<[name |-> "id", type |-> expected, optional |-> TRUE]>>

\* 3.0, after a record whose id is null, is INT64
C14_Witness ==
    /\ pc = "done" /\ entry = "inferSchema"
    /\ jsonData = <<[id |-> Null], [id |-> Num(3, 0)]>>
    /\ schemaFields[1].type = "INT64"

\* the compact JSON text of the nested values of TransformedPool
CompactJsonText(v) ==
    CASE v = Obj(<<>>) -> "{}"
      [] v = Obj(<< <<"nested", Str("value")>> >>) -> "{\"nested\":\"value\"}"
      [] v = Arr(<<>>) -> "[]"
      [] v = Arr(<<Num(1, 0), Num(2, 0), Num(3, 0)>>) -> "[1,2,3]"
      [] v = Arr(<<Undefined, Null>>) -> "[null,null]"

\* what the record returned for the record r has to be
ExpectedTransform(r) ==
    [k \in DOMAIN r |->
       IF r[k] \in {Null, Undefined} THEN Null
       ELSE IF r[k][1] \in {"object", "array"} THEN Str(CompactJsonText(r[k]))
       ELSE r[k]]

\* C17: transformRecord returns a record with exactly the input's field names
\* whose values are null for null and undefined, the compact JSON text for an
\* object or list that is not a date, and the input value otherwise; the call
\* succeeds and changes neither the input record nor the merger.
C17_TransformRecord ==
    /\ [](entry = "transformRecord" =>
            /\ pc # "transform" =>
                 /\ result = "ok"
                 /\ DOMAIN currentBatch[1] = DOMAIN jsonData[1]
                 /\ currentBatch[1] = ExpectedTransform(jsonData[1])
            /\ inferredSchema = <<>> /\ processedCount = 0)
    /\ [][entry = "transformRecord" =>
            UNCHANGED <<jsonData, optVars, inferredSchema, processedCount>>]_vars

\* undefined becomes null and a list becomes its JSON text
C17_Witness ==
    /\ entry = "transformRecord" /\ pc = "again"
    /\ jsonData = <<[id |-> Undefined, score |-> Arr(<<Undefined, Null>>)]>>
    /\ currentBatch = <<[id |-> Null, score |-> Str("[null,null]")]>>

\* the record has no object and no list among its values
NoNestedStructure(r) == \A k \in DOMAIN r : r[k][1] \notin {"object", "array"}

\* C18: for a record without nested structures, transforming the transformed
\* record returns it unchanged.
C18_TransformIdempotent ==
    (entry = "transformRecord" /\ pc = "done" /\ NoNestedStructure(jsonData[1]))
      => currentBatch[2] = currentBatch[1]

\* a date and an undefined value: the second call returns what the first did
C18_Witness ==
    /\ entry = "transformRecord" /\ pc = "done"
    /\ jsonData = <<[id |-> DateVal(0), score |-> Undefined]>>
    /\ currentBatch = <<[id |-> DateVal(0), score |-> Null],
                        [id |-> DateVal(0), score |-> Null]>>

\* something of the write phase has happened: the sink was opened or called,
\* a file was read by processFiles, a record was transformed, a row appended
WritePhaseStarted ==
    \/ writer # "none"
    \/ sinkCalls # <<>>
    \/ \E i \in DOMAIN reads : reads[i][1] = "write"
    \/ batchSrc # <<>> \/ currentBatch # <<>>
    \/ rows # <<>>

\* C19: in a run, the inferred schema is complete (an entry for every observed
\* field) before anything of the write phase happens, and no step after
\* inferSchema returned assigns it again.
C19_SchemaFixedBeforeWrites ==
    /\ []((entry = "run" /\ WritePhaseStarted) =>
            /\ inferResult = "ok"
            /\ inferredSchema = <<schemaFields>>
            /\ Len(schemaFields) = Len(allFields)
            /\ Range(SchemaNames(schemaFields)) = FieldNamesOf(files))
    /\ [][(entry = "run" /\ pc \in {"pf", "file", "rec", "flush", "close", "done"})
            => inferredSchema' = inferredSchema]_vars

\* a schema of two fields is in place when the first row is appended
C19_Witness ==
    /\ entry = "run"
    /\ Len(inferredSchema) = 1 /\ Len(inferredSchema[1]) = 2
    /\ Len(rows) = 1
    /\ sinkCalls = <<"openFile", "appendRow">>

\* C20: when inferSchema fails, the run ends in failure before any write: the
\* sink is not opened, processFiles reads no file and no row is appended.
C20_InferenceFailureAbortsBeforeWrite ==
    (entry = "run" /\ inferResult \notin {"pending", "ok"}) =>
      /\ pc = "done" /\ result = "Processing failed"
      /\ inferredSchema = <<>>
      /\ ~WritePhaseStarted
      /\ pfResult = "pending"
      /\ processedCount = 0

\* two files that hold empty arrays: the run fails with no field found, after
\* both were read by inferSchema
C20_Witness ==
    /\ entry = "run" /\ pc = "done" /\ result = "Processing failed"
    /\ files = <<JsonArray(<<>>), JsonArray(<<>>)>>
    /\ inferResult = "NoFields"
    /\ reads = << <<"infer", 1>>, <<"infer", 2>> >>
    /\ sinkCalls = <<>>

\* C21: processedCount is 0 at the start and changes only in the step that
\* ends writeBatch, where it grows by the length of the batch written; no
\* other step of the run changes it.
C21_CounterChangesOnlyInFlush ==
    /\ processedCount = 0
    /\ [][processedCount' # processedCount =>
            /\ pc = "flush"
            /\ wi = Len(currentBatch)
            /\ Len(rows') = Len(rows) + 1
            /\ processedCount' = processedCount + Len(currentBatch)]_vars

\* after a batch of two and a batch of one the counter is 3
C21_Witness ==
    /\ entry = "run" /\ pc = "done"
    /\ flushLog = <<2, 1>>
    /\ processedCount = 3

\* C22: in the write phase the current batch never holds more records than
\* the configured batch size.
C22_BatchWithinBatchSize ==
    writer # "none" => Len(currentBatch) <= batchSize

\* C23: a merger constructed with a batch size that is not a positive integer
\* is rejected before any file is touched.
C23_InvalidBatchSizeRejected ==
    (batchSize < 1 /\ pc # "new") =>
      /\ pc = "done"
      /\ result \notin {"pending", "ok"}
      /\ files = <<>> /\ reads = <<>> /\ sinkCalls = <<>>

\* C24, as stated: when discovery finds no file or the input path does not
\* exist, the run fails and inference does not start.
C24_NoFilesOrMissingPathFails ==
    (entry = "run" /\ pc \notin {"new", "run"}
     /\ (input = "missing" \/ Len(listing) = 0)) =>
      /\ pc = "done" /\ result = "Processing failed"
      /\ inferResult = "pending" /\ reads = <<>>

\* C24, amended: when the input path does not exist the run fails; when
\* discovery finds no file the run returns normally; in both cases inference
\* does not start and nothing is written.
C24_MissingPathFailsNoFilesReturns ==
    (entry = "run" /\ pc \notin {"new", "run"}
     /\ (input = "missing" \/ Len(listing) = 0)) =>
      /\ pc = "done"
      /\ result = (IF input = "missing" THEN "Processing failed" ELSE "ok")
      /\ inferResult = "pending" /\ inferredSchema = <<>> /\ reads = <<>>
      /\ ~WritePhaseStarted

\* a directory without JSON files: run() returns without an error
C24_Witness ==
    /\ entry = "run" /\ input = "dir" /\ Len(listing) = 0
    /\ pc = "done" /\ result = "ok"
    /\ inferResult = "pending"

\* C25: run() ends with the one failure 'Processing failed' exactly when
\* discovery, inference or processing raised an error; a file that fails
\* validation is skipped and does not make run() fail.
C25_SingleFailureOutcome ==
    (entry = "run" /\ pc = "done") =>
      /\ result \in {"ok", "Processing failed"}
      /\ result = "Processing failed" <=>
           \/ input = "missing"
           \/ inferResult \notin {"pending", "ok"}
           \/ pfResult \notin {"pending", "ok"}
      /\ pfResult \in {"pending", "ok", "ReadError", "OpenError", "AppendError",
                      "CloseError"}
      /\ (inferResult = "ok" /\ caught = "none" /\ writer = "closed") => result = "ok"

\* the first of two files fails validation and is skipped, the second is
\* written, and run() succeeds
C25_Witness ==
    /\ entry = "run" /\ pc = "done" /\ result = "ok"
    /\ validate /\ Len(files) = 2
    /\ Rejected(1)
    /\ rowSrc = << <<2, 1>> >>

\* the appendRow calls made so far, and those that completed
AppendCalls == Cardinality({i \in DOMAIN sinkCalls : sinkCalls[i] = "appendRow"})
AppendsCompleted == AppendCalls - (IF caught = "AppendError" THEN 1 ELSE 0)

\* C26: processedCount never exceeds the number of completed appendRow calls
\* and equals it whenever no writeBatch is in progress and none has failed;
\* the rows a failed writeBatch had appended stay uncounted.
C26_CounterNeverAheadOfSink ==
    writer # "none" =>
      /\ Len(rows) = AppendsCompleted
      /\ processedCount <= AppendsCompleted
      /\ (pc # "flush" /\ caught # "AppendError") => processedCount = AppendsCompleted
      /\ (pc = "flush" \/ caught = "AppendError")
           => processedCount = AppendsCompleted - (wi - 1)

\* appendRow failed on the second record of a batch of two: one row is in
\* the sink and the counter is still 0 when processFiles has ended
C26_Witness ==
    /\ pc = "done" /\ caught = "AppendError"
    /\ batchSize = 2 /\ wi = 2
    /\ Len(rows) = 1
    /\ processedCount = 0

\* the rows a write phase without a fatal error appends
FailureFreeRows ==
    LET admitted == AdmittedFrom(1)
    IN  [i \in DOMAIN admitted |-> TransformRecord(admitted[i])]

\* C27: the rows in the sink are always a prefix of the rows a failure-free
\* write phase appends, and once a fatal error was thrown no row is appended
\* any more: the records left in the batch are dropped, close included.
C27_SinkHoldsPrefix ==
    /\ [](writer # "none" =>
            /\ Len(rows) <= Len(FailureFreeRows)
            /\ rows = SubSeq(FailureFreeRows, 1, Len(rows)))
    /\ [][caught # "none" => (rows' = rows /\ AppendCalls' = AppendCalls)]_vars

\* the read of the second file fails when two rows are written and a third
\* record waits in the batch: it is still there, unwritten, after close
C27_Witness ==
    /\ pc = "done" /\ caught = "ReadError"
    /\ Len(rows) = 2
    /\ Len(currentBatch) = 1
    /\ sinkCalls[Len(sinkCalls)] = "close"
    /\ Len(FailureFreeRows) > Len(rows)

\* C28: a step that moves on to the next file without a full batch (the file
\* ended, did not parse or failed validation) keeps the batch and leaves the
\* counter and the sink unchanged; a batch is written at a file boundary
\* only when it is full, and a shorter batch only once, after the last file.
C28_BatchCarriedAcrossFiles ==
    /\ [](writer # "none" =>
            \A i \in DOMAIN flushLog :
              flushLog[i] < batchSize =>
                (i = Len(flushLog) /\ finalFlush /\ fi > Len(files)))
    /\ [][(writer # "none" /\ fi' # fi) =>
            /\ pc = "flush" => Len(currentBatch) = batchSize
            /\ pc # "flush" =>
                 /\ rows' = rows /\ sinkCalls' = sinkCalls
                 /\ processedCount' = processedCount
                 /\ flushLog' = flushLog
                 /\ pc = "file" => currentBatch' = currentBatch
                 /\ pc = "rec" =>
                      currentBatch' = Append(currentBatch, TransformRecord(jsonData[ri]))]_vars

\* batch size 2: the record of the first file is still in the batch after
\* the second file was skipped, and nothing was written
C28_Witness ==
    /\ pc = "file" /\ fi = 3 /\ Len(files) = 2
    /\ batchSize = 2
    /\ files[2] = InvalidJson
    /\ batchSrc = << <<1, 1>> >>
    /\ sinkCalls = <<"openFile">>
    /\ processedCount = 0

\* C29: in a run with validation enabled, a file contributes rows only if
\* every record of it has exactly the field names found over all input files.
C29_RowsOnlyFromFilesWithAllFields ==
    (entry = "run" /\ validate /\ writer # "none") =>
      \A i \in DOMAIN rowSrc :
        \A r \in Range(JsonParse(files[rowSrc[i][1]]).data) :
          DOMAIN r = FieldNamesOf(files)

=============================================================================
